---------------------------- MODULE Spec2Model ----------------------------
(***************************************************************************)
(* A model of the Streamline editor core: the Block Cache                  *)
(* (src/src/block_cache.rs), the module graph and its code generator       *)
(* (src/src/modules.rs, EditorState::source_file in src/src/lib.rs) and    *)
(* the three threads with their three mpsc channels (EditorState::new and  *)
(* EditorState::update in src/src/lib.rs).                                 *)
(*                                                                         *)
(* Text is modelled as a sequence of string pieces (the literal parts of a *)
(* format string and the values substituted into it); Flatten gives the    *)
(* text itself.                                                            *)
(***************************************************************************)
EXTENDS Integers, Sequences, FiniteSets, TLC

VARIABLES
    block_cache,    \* EditorState.block_cache: the four slots of BlockCache
    messages,       \* EditorState.messages: the message log (Vec<MessageKind>)
    gui_thread,     \* the render thread: "running" or "panicked"
    call,           \* the last direct call of the Block Cache API and what it returned
    written,        \* slots that have been the target of a set since creation
    modules,        \* EditorState.modules: HashMap<i64, Module>, key -> module
    order,          \* the iteration order of the HashMap: a sequence of its keys
    gen,            \* the results of the source_file calls since the graph last changed
    worker_rec,     \* channel gui -> worker thread (WorkerMessage), oldest first
    stream_rec,     \* channel gui -> stream thread (StreamMessages), oldest first
    gui_receiver,   \* channel workers -> gui thread (GuiMessage), oldest first
    worker_thread,  \* the worker thread: "spawned" | "polling" | "evaluating"
    stream_thread,  \* the stream thread: "spawned" | "polling" | "run" | "get_block"
    session,        \* the streaming session the stream thread has open
    yielded,        \* history: per stream request taken, what its session did
    scope,          \* the worker thread's rhai Scope
    main_ast,       \* the worker thread's accumulated AST
    sent,           \* history: per channel, the ids of the requests sent on it, in send
                    \* order; early: those sent before the worker thread had started
    handled,        \* history: per worker, the ids of the requests it has taken, in order
    emitted,        \* history: per sending thread, the GuiMessages it sent, in order
    applied,        \* history: for each slot, the id of the request whose SetBlock was applied last
    next_id         \* history: the id the next request gets

cacheVars == <<block_cache, messages, gui_thread, call, written>>
genVars == <<modules, order, gen>>
busVars == <<worker_rec, stream_rec, gui_receiver, worker_thread, stream_thread,
             session, yielded, scope, main_ast, sent, handled, emitted, applied, next_id>>
vars == <<cacheVars, genVars, busVars>>

---------------------------------------------------------------------------
(* Bounds of the model.                                                    *)

\* The slot arguments tried are 0..MaxSlotArg and the largest u8.
MaxSlotArg == 4
\* The message log is followed up to this length.
MaxMessages == 2

\* u8::MAX, the largest value of a cache_slot
U8Max == 255

SlotArgs == (0..MaxSlotArg) \cup {U8Max}

---------------------------------------------------------------------------
(* serde_json::Value and serde_json::from_str, as far as the program uses  *)
(* them: a record is a JSON text; parsing gives a value or fails.          *)

JsonNull == [t |-> "Null", n |-> 0]
JsonObject(n) == [t |-> "Object", n |-> n]
JsonNumber(n) == [t |-> "Number", n |-> n]

Values == {JsonNull, JsonObject(100), JsonObject(101)}

ParseOk(v) == [ok |-> TRUE, value |-> v]
ParseErr == [ok |-> FALSE, value |-> JsonNull]

\* serde_json::from_str: whitespace is insignificant, a cut-off text is an error.
from_str(json_str) ==
    CASE json_str = "null" -> ParseOk(JsonNull)
      [] json_str = "{\"number\":100}" -> ParseOk(JsonObject(100))
      [] json_str = "{ \"number\": 100 }" -> ParseOk(JsonObject(100))
      [] json_str = "{\"number\":101}" -> ParseOk(JsonObject(101))
      [] json_str = "100" -> ParseOk(JsonNumber(100))
      [] json_str = "101" -> ParseOk(JsonNumber(101))
      [] OTHER -> ParseErr

JsonTexts == {"null", "{\"number\":100}", "{ \"number\": 100 }", "{\"number\":101}",
              "{\"number\":"}

---------------------------------------------------------------------------
(* The Block Cache: src/src/block_cache.rs                                 *)

\* the slots that `match block` of set and get know
ValidSlots == 1..4

\* #[derive(Default)]: every slot is Value::Null
BlockCacheDefault ==
    [block_1 |-> JsonNull, block_2 |-> JsonNull, block_3 |-> JsonNull, block_4 |-> JsonNull]

\* set with the arm of slot 4 writing block_3
set_slot_4_writes_block_3(cache, block, value) ==
    CASE block = 1 -> [cache EXCEPT !.block_1 = value]
      [] block = 2 -> [cache EXCEPT !.block_2 = value]
      [] block = 3 -> [cache EXCEPT !.block_3 = value]
      [] block = 4 -> [cache EXCEPT !.block_3 = value]
      [] OTHER -> cache

\* set replacing the whole cache by one that holds the value alone
set_resetting(cache, block, value) ==
    CASE block = 1 -> [BlockCacheDefault EXCEPT !.block_1 = value]
      [] block = 2 -> [BlockCacheDefault EXCEPT !.block_2 = value]
      [] block = 3 -> [BlockCacheDefault EXCEPT !.block_3 = value]
      [] block = 4 -> [BlockCacheDefault EXCEPT !.block_4 = value]
      [] OTHER -> cache

\* BlockCache::set
set(cache, block, value) ==
    CASE block = 1 -> [cache EXCEPT !.block_1 = value]
      [] block = 2 -> [cache EXCEPT !.block_2 = value]
      [] block = 3 -> [cache EXCEPT !.block_3 = value]
      [] block = 4 -> [cache EXCEPT !.block_4 = value]
      [] OTHER -> cache      \* println!("Invalid block number")

\* get with the slots counted from 0
get_from_zero(cache, block) ==
    CASE block = 0 -> cache.block_1
      [] block = 1 -> cache.block_2
      [] block = 2 -> cache.block_3
      [] block = 3 -> cache.block_4
      [] OTHER -> JsonNull

\* BlockCache::get
get(cache, block) ==
    CASE block = 1 -> cache.block_1
      [] block = 2 -> cache.block_2
      [] block = 3 -> cache.block_3
      [] block = 4 -> cache.block_4
      [] OTHER -> JsonNull   \* println!("Invalid block number"); &Value::Null

\* MessageKind
TextMessage(text) == [kind |-> "TextMessage", text |-> text, json |-> JsonNull]
JsonMessage(value) == [kind |-> "JsonMessage", text |-> "", json |-> value]


---------------------------------------------------------------------------
(* The render thread's handling of one outbound message:                   *)
(* EditorState::update, the arms of `match msg` (src/src/lib.rs 496-519).  *)
(* A GuiMessage is [tag, slot, text, req]; req is history (the id of the   *)
(* request that caused the message, 0 when none), no arm reads it.         *)

PushMessage(text, req) == [tag |-> "PushMessage", slot |-> 0, text |-> text, req |-> req]
PushJson(json_str, req) == [tag |-> "PushJson", slot |-> 0, text |-> json_str, req |-> req]
SetBlock(cache_slot, json_str, req) ==
    [tag |-> "SetBlock", slot |-> cache_slot, text |-> json_str, req |-> req]
ClearMessages(req) == [tag |-> "ClearMessages", slot |-> 0, text |-> "", req |-> req]

\* An arm's outcome: the thread panicked (Result::unwrap on Err), or the new
\* Block Cache and message log.
Arm(cache, log, panicked) == [block_cache |-> cache, messages |-> log, panicked |-> panicked]

\* GuiMessage::PushMessage(msg)
OnPushMessage(cache, log, msg) == Arm(cache, Append(log, TextMessage(msg.text)), FALSE)

\* GuiMessage::ClearMessages
OnClearMessages(cache, log, msg) == Arm(cache, <<>>, FALSE)

\* the PushJson arm keeping the value in slot 1 as well
OnPushJson_caching(cache, log, msg) ==
    LET value == from_str(msg.text)
    IN  IF value.ok
        THEN Arm(set(cache, 1, value.value), Append(log, JsonMessage(value.value)), FALSE)
        ELSE Arm(cache, log, TRUE)

\* GuiMessage::PushJson(json_str)
OnPushJson(cache, log, msg) ==
    LET value == from_str(msg.text)
    IN  IF value.ok
        THEN Arm(cache, Append(log, JsonMessage(value.value)), FALSE)
        ELSE Arm(cache, log, TRUE)

\* the SetBlock arm writing only a slot that holds null
OnSetBlock_first_wins(cache, log, msg) ==
    LET value == from_str(msg.text)
    IN  IF value.ok
        THEN Arm(IF get(cache, msg.slot) = JsonNull
                 THEN set(cache, msg.slot, value.value) ELSE cache,
                 log \o << TextMessage("Block " \o ToString(msg.slot) \o " set"),
                           JsonMessage(value.value) >>,
                 FALSE)
        ELSE Arm(cache, log, TRUE)

\* GuiMessage::SetBlock(cache_slot, json_str)
OnSetBlock(cache, log, msg) ==
    LET value == from_str(msg.text)
    IN  IF value.ok
        THEN Arm(set(cache, msg.slot, value.value),
                 log \o << TextMessage("Block " \o ToString(msg.slot) \o " set"),
                           JsonMessage(value.value) >>,
                 FALSE)
        ELSE Arm(cache, log, TRUE)

OnGuiMessage(cache, log, msg) ==
    CASE msg.tag = "PushMessage" -> OnPushMessage(cache, log, msg)
      [] msg.tag = "ClearMessages" -> OnClearMessages(cache, log, msg)
      [] msg.tag = "PushJson" -> OnPushJson(cache, log, msg)
      [] msg.tag = "SetBlock" -> OnSetBlock(cache, log, msg)

---------------------------------------------------------------------------
(* The Block Cache driven through its public interface, and through the    *)
(* one place of the program that writes it (the SetBlock arm), with every  *)
(* slot argument a u8 can carry.                                           *)

CacheValues == {JsonNull, JsonObject(100)}
CacheTexts == {"{\"number\":100}", "{\"number\":"}

NoCall == [op |-> "none", block |-> 0, value |-> JsonNull, ret |-> JsonNull,
           before |-> BlockCacheDefault]

CacheInit ==
    /\ block_cache = BlockCacheDefault
    /\ messages = <<>>
    /\ gui_thread = "running"
    /\ call = NoCall
    /\ written = {}

Target(block) == IF block \in ValidSlots THEN {block} ELSE {}

\* block_cache.set(block, value)
CallSet(block, value) ==
    /\ gui_thread = "running"
    /\ block_cache' = set(block_cache, block, value)
    /\ call' = [op |-> "set", block |-> block, value |-> value, ret |-> JsonNull,
                before |-> block_cache]
    /\ written' = written \cup Target(block)
    /\ UNCHANGED <<messages, gui_thread>>
    /\ UNCHANGED <<genVars, busVars>>

\* block_cache.get(block): takes &self
CallGet(block) ==
    /\ gui_thread = "running"
    /\ call' = [op |-> "get", block |-> block, value |-> JsonNull,
                ret |-> get(block_cache, block), before |-> block_cache]
    /\ UNCHANGED <<block_cache, messages, gui_thread, written>>
    /\ UNCHANGED <<genVars, busVars>>

\* the render thread applies GuiMessage::SetBlock(cache_slot, json_str)
ApplySetBlock(cache_slot, json_str) ==
    /\ gui_thread = "running"
    /\ Len(messages) + 2 <= MaxMessages
    /\ LET arm == OnSetBlock(block_cache, messages, SetBlock(cache_slot, json_str, 0))
       IN  /\ block_cache' = arm.block_cache
           /\ messages' = arm.messages
           /\ gui_thread' = IF arm.panicked THEN "panicked" ELSE "running"
           /\ call' = [op |-> "SetBlock", block |-> cache_slot,
                       value |-> from_str(json_str).value, ret |-> JsonNull,
                       before |-> block_cache]
           /\ written' = IF arm.panicked THEN written ELSE written \cup Target(cache_slot)
    /\ UNCHANGED <<genVars, busVars>>

CacheNext ==
    \/ \E block \in SlotArgs, value \in CacheValues : CallSet(block, value)
    \/ \E block \in SlotArgs : CallGet(block)
    \/ \E cache_slot \in SlotArgs, json_str \in CacheTexts : ApplySetBlock(cache_slot, json_str)

---------------------------------------------------------------------------
(* The module graph and the code generator: src/src/modules.rs and         *)
(* EditorState::source_file (src/src/lib.rs 449-459).                      *)
(*                                                                         *)
(* modules is the HashMap<i64, Module> as a function key -> module, order  *)
(* the order in which the HashMap yields its keys (iter, values): any      *)
(* order, the same one for as long as the map is not modified.             *)

\* A graph has at most MaxModules modules, which declare at most MaxInputs
\* inputs between them.
MaxModules == 2
MaxInputs == 2

Keys == 1..MaxModules
Names == {"foo", "bar"}
InputStrings == {"foo", "BLOCK"}

\* enum Module
Map(name, code, inputs, editing) ==
    [variant |-> "Map", name |-> name, code |-> code, inputs |-> inputs,
     update_policy |-> "", editing |-> editing]
Store(name, code, inputs, update_policy, editing) ==
    [variant |-> "Store", name |-> name, code |-> code, inputs |-> inputs,
     update_policy |-> update_policy, editing |-> editing]

\* The literal pieces of the format strings of generate_input_code and
\* register_module
SourceDesc == "#{kind: \"source\"}"
MapDescOpen == "#{kind: \"map\", name: \""
StoreDescOpen == "#{kind: \"store\", name: \""
DescClose == "\"}"
NameOpen == "(#{\n    name: \""
InputsOpen == "\",\n    inputs: ["
HandlerOpen == "],\n    handler: \""
StatementClose == "\"\n});\n"

\* The outcome of a call that may panic: the text it returns, or the panic message.
Returned(text) == [panic |-> FALSE, text |-> text]
Panicked(text) == [panic |-> TRUE, text |-> text]

RECURSIVE Flatten(_)
Flatten(pieces) ==
    IF pieces = <<>> THEN "" ELSE Head(pieces) \o Flatten(Tail(pieces))

\* module_map.iter().find(|(_, module)| module.name() == input): the first
\* module in iteration order that has the name, as a set of at most one key.
Find(input, mods, ord) ==
    LET hits == {i \in DOMAIN ord : mods[ord[i]].name = input}
    IN  IF hits = {} THEN {}
        ELSE {ord[CHOOSE i \in hits : \A j \in hits : i <= j]}

\* generate_input_code with the descriptors of the two variants exchanged
generate_input_code_kinds_exchanged(input, mods, ord) ==
    LET found == Find(input, mods, ord)
    IN  IF found # {}
        THEN LET module == mods[CHOOSE k \in found : TRUE]
             IN  IF module.variant = "Map"
                 THEN Returned(<<StoreDescOpen, module.name, DescClose>>)
                 ELSE Returned(<<MapDescOpen, module.name, DescClose>>)
        ELSE IF input = "BLOCK"
             THEN Returned(<<SourceDesc>>)
             ELSE Panicked(<<"Unknown input: ", input>>)

\* generate_input_code looking at the sentinel before the module names
generate_input_code_sentinel_first(input, mods, ord) ==
    LET found == Find(input, mods, ord)
    IN  IF input = "BLOCK"
        THEN Returned(<<SourceDesc>>)
        ELSE IF found # {}
             THEN LET module == mods[CHOOSE k \in found : TRUE]
                  IN  IF module.variant = "Map"
                      THEN Returned(<<MapDescOpen, module.name, DescClose>>)
                      ELSE Returned(<<StoreDescOpen, module.name, DescClose>>)
             ELSE Panicked(<<"Unknown input: ", input>>)

\* Module::generate_input_code
generate_input_code(input, mods, ord) ==
    LET found == Find(input, mods, ord)
    IN  IF found # {}
        THEN LET module == mods[CHOOSE k \in found : TRUE]
             IN  IF module.variant = "Map"
                 THEN Returned(<<MapDescOpen, module.name, DescClose>>)
                 ELSE Returned(<<StoreDescOpen, module.name, DescClose>>)
        ELSE IF input = "BLOCK"
             THEN Returned(<<SourceDesc>>)
             ELSE Panicked(<<"Unknown input: ", input>>)

\* the input code collected last input first
RECURSIVE InputCode_reversed(_, _, _, _)
InputCode_reversed(inputs, mods, ord, first) ==
    IF inputs = <<>> THEN Returned(<<>>)
    ELSE LET n == Len(inputs)
             last == generate_input_code(inputs[n], mods, ord)
             rest == InputCode_reversed(SubSeq(inputs, 1, n - 1), mods, ord, FALSE)
         IN  IF rest.panic THEN rest
             ELSE IF last.panic THEN last
             ELSE Returned((IF first THEN <<>> ELSE <<",">>) \o last.text \o rest.text)

\* .map(|input| Self::generate_input_code(input, module_map)).collect().join(","):
\* the inputs are generated in declared order and the first panic ends the call.
RECURSIVE InputCode(_, _, _, _)
InputCode(inputs, mods, ord, first) ==
    IF inputs = <<>> THEN Returned(<<>>)
    ELSE LET head == generate_input_code(Head(inputs), mods, ord)
             rest == InputCode(Tail(inputs), mods, ord, FALSE)
         IN  IF head.panic THEN head
             ELSE IF rest.panic THEN rest
             ELSE Returned((IF first THEN <<>> ELSE <<",">>) \o head.text \o rest.text)

\* register_module registering every module with add_mfn
register_module_always_mfn(self, mods, ord) ==
    LET name == self.name
        register_function == "add_mfn"
        input_code == InputCode(self.inputs, mods, ord, TRUE)
    IN  IF input_code.panic THEN input_code
        ELSE Returned(<<"\n", register_function, NameOpen, name, InputsOpen>>
                      \o input_code.text
                      \o <<HandlerOpen, name, StatementClose>>)

\* Module::register_module
register_module(self, mods, ord) ==
    LET name == self.name
        register_function == IF self.variant = "Map" THEN "add_mfn" ELSE "add_sfn"
        input_code == InputCode(self.inputs, mods, ord, TRUE)
    IN  IF input_code.panic THEN input_code
        ELSE Returned(<<"\n", register_function, NameOpen, name, InputsOpen>>
                      \o input_code.text
                      \o <<HandlerOpen, name, StatementClose>>)

\* the loop returning what it has built when a module cannot be registered
RECURSIVE SourceLoop_partial(_, _, _, _)
SourceLoop_partial(i, source, mods, ord) ==
    IF i > Len(ord) THEN Returned(source)
    ELSE LET module == mods[ord[i]]
             registered == register_module(module, mods, ord)
         IN  IF registered.panic THEN Returned(source)
             ELSE SourceLoop_partial(i + 1,
                                     source \o registered.text \o <<module.code, "\n">>,
                                     mods, ord)

\* The loop of source_file over modules.values(), from position i on, with
\* `source` built so far.
RECURSIVE SourceLoop(_, _, _, _)
SourceLoop(i, source, mods, ord) ==
    IF i > Len(ord) THEN Returned(source)
    ELSE LET module == mods[ord[i]]
             registered == register_module(module, mods, ord)
         IN  IF registered.panic THEN registered
             ELSE SourceLoop(i + 1, source \o registered.text \o <<module.code, "\n">>,
                             mods, ord)

\* source_file appending to the text of the call before (`source` kept, not
\* created by String::new() in each call)
source_file_appending ==
    SourceLoop(1, IF gen = <<>> THEN <<>> ELSE gen[Len(gen)].result.text, modules, order)

\* EditorState::source_file
source_file == SourceLoop(1, <<>>, modules, order)

\* Module::build_default_modules, with the keys random() gave: key_foo, key_store
build_default_modules(key_foo, key_store) ==
    (key_foo :> Map("foo", "fn foo(BLOCK) {\n BLOCK.number \n}", <<"BLOCK">>, TRUE))
    @@ (key_store :> Store("test_store", "fn test_store(test_map,s) {\n s.set(test_map); \n}",
                           <<"foo">>, "set", TRUE))

---------------------------------------------------------------------------
(* The code generator applied to every graph within the bounds.            *)

\* source_file is called at most MaxCalls times between two changes of the graph.
MaxCalls == 2

RECURSIVE SeqsUpTo(_, _)
SeqsUpTo(S, n) ==
    IF n = 0 THEN {<<>>}
    ELSE LET shorter == SeqsUpTo(S, n - 1)
         IN  shorter \cup {Append(q, x) : q \in shorter, x \in S}

Perms(D) ==
    {p \in [1..Cardinality(D) -> D] : \A i, j \in 1..Cardinality(D) : p[i] = p[j] => i = j}

\* The code body of the module under key k: bodies are texts of their own.
Body(k) == "fn body_" \o ToString(k) \o "() {}"

\* The modules that can stand under key k, with a name of `names` and at
\* most n inputs
ModulesNamed(k, n, names) ==
    {Map(name, Body(k), inputs, TRUE) :
        name \in names, inputs \in SeqsUpTo(InputStrings, n)}
    \cup
    {Store(name, Body(k), inputs, "set", TRUE) :
        name \in names, inputs \in SeqsUpTo(InputStrings, n)}

ModulesOf(k, n) == ModulesNamed(k, n, Names)

\* The graphs with the keys D, names of `names`, that declare at most n
\* inputs in all
RECURSIVE GraphsNamed(_, _, _)
GraphsNamed(D, n, names) ==
    IF D = {} THEN {<<>>}
    ELSE LET k == CHOOSE x \in D : TRUE
         IN  UNION {{(k :> m) @@ g : g \in GraphsNamed(D \ {k}, n - Len(m.inputs), names)} :
                    m \in ModulesNamed(k, n, names)}

Graphs(D, n) == GraphsNamed(D, n, Names)

GenInit ==
    /\ \E D \in SUBSET Keys :
          /\ modules \in Graphs(D, MaxInputs)
          /\ order \in Perms(D)
    /\ gen = <<>>

\* a call of source_file(&self) by the render thread
CallSourceFile ==
    /\ Len(gen) < MaxCalls
    /\ gen' = Append(gen, [result |-> source_file, before |-> <<modules, order>>])
    /\ UNCHANGED <<modules, order>>
    /\ UNCHANGED <<cacheVars, busVars>>

\* the name field renaming the inputs that name the module as well
EditName_following_inputs(k, new_name) ==
    /\ k \in DOMAIN modules
    /\ modules[k].name # new_name
    /\ modules' = [i \in DOMAIN modules |->
                      [modules[i] EXCEPT
                          !.name = IF i = k THEN new_name ELSE @,
                          !.inputs = [j \in DOMAIN @ |->
                                         IF @[j] = modules[k].name THEN new_name ELSE @[j]]]]
    /\ gen' = <<>>
    /\ UNCHANGED order
    /\ UNCHANGED <<cacheVars, busVars>>

\* ui.text_edit_singleline(name) of ModulePanel::ui: the name of the module
\* under key k is edited to new_name
EditName(k, new_name) ==
    /\ k \in DOMAIN modules
    /\ modules[k].name # new_name
    /\ modules' = [modules EXCEPT ![k].name = new_name]
    /\ gen' = <<>>
    /\ UNCHANGED order
    /\ UNCHANGED <<cacheVars, busVars>>

GenNext ==
    \/ CallSourceFile
    \/ \E k \in Keys, new_name \in Names : EditName(k, new_name)

\* The name field is free text: a module can be given a name no module and
\* no input of the graph has.
RenamedNames == Names \cup {"renamed"}

RenameNext ==
    \E k \in Keys, new_name \in RenamedNames : EditName(k, new_name)

\* The name field is free text: a module can be named like the sentinel.
SentinelNames == Names \cup {"BLOCK"}

ResolveInit ==
    /\ \E D \in SUBSET Keys :
          /\ modules \in GraphsNamed(D, MaxInputs, SentinelNames)
          /\ order \in Perms(D)
    /\ gen = <<>>

\* Self::generate_input_code(input, module_map) for declared input j of the
\* module under key k, as register_module calls it
CallGenerateInputCode(k, j) ==
    /\ gen = <<>>
    /\ k \in DOMAIN modules
    /\ j \in DOMAIN modules[k].inputs
    /\ gen' = <<[input |-> modules[k].inputs[j],
                 result |-> generate_input_code(modules[k].inputs[j], modules, order),
                 before |-> <<modules, order>>]>>
    /\ UNCHANGED <<modules, order>>
    /\ UNCHANGED <<cacheVars, busVars>>

ResolveNext ==
    \/ \E k \in Keys, j \in 1..MaxInputs : CallGenerateInputCode(k, j)
    \/ \E k \in Keys, new_name \in SentinelNames : EditName(k, new_name)

---------------------------------------------------------------------------
(* The scripting runtime (rhai), as far as the worker thread uses it. A    *)
(* script is a text; the runtime decides whether it compiles, what it      *)
(* binds in the scope and whether running it fails.                        *)

\* the code of the default module foo, as source_file hands it to Eval
FooScript == "fn foo(BLOCK) {\n BLOCK.number \n}"

Scripts == {"let x = 1;", "bogus syntax", "throw 1;", FooScript}

\* Engine::compile_with_scope
Compiles(code) == code # "bogus syntax"
\* the variables a compiled script pushes into the scope when it runs
Binds(code) == IF code = "let x = 1;" THEN {"x"} ELSE {}
\* whether running a compiled script ends in a runtime error
Throws(code) == code = "throw 1;"
\* whether running a compiled script ends at all
Terminates(code) == code # "loop {}"
\* the functions a compiled script defines
Defines(code) == IF code = FooScript THEN {"foo"} ELSE {}

\* Engine::eval_ast_with_scope on the merged AST: its statements run in
\* order under the scope, up to the first that fails.
RECURSIVE EvalAst(_, _)
EvalAst(ast, bindings) ==
    IF ast = <<>> THEN [ok |-> TRUE, returns |-> TRUE, scope |-> bindings]
    ELSE IF ~Terminates(Head(ast)) THEN [ok |-> FALSE, returns |-> FALSE, scope |-> bindings]
    ELSE IF Throws(Head(ast)) THEN [ok |-> FALSE, returns |-> TRUE, scope |-> bindings]
    ELSE EvalAst(Tail(ast), bindings \cup Binds(Head(ast)))

\* build_and_run clearing the scope when the text does not compile
build_and_run_clearing(bindings, code, ast) ==
    IF ~Compiles(code)
    THEN [result |-> "Err(ErrorParsing)", returns |-> TRUE, scope |-> {}, main_ast |-> ast]
    ELSE LET merged == Append(ast, code)
             ran == EvalAst(merged, bindings)
         IN  [result |-> IF ran.ok THEN "Ok(())" ELSE "Err(ErrorRuntime)",
              returns |-> ran.returns, scope |-> ran.scope, main_ast |-> merged]

\* build_and_run keeping the merged AST only when running it succeeds
build_and_run_merging_on_success(bindings, code, ast) ==
    IF ~Compiles(code)
    THEN [result |-> "Err(ErrorParsing)", returns |-> TRUE, scope |-> bindings, main_ast |-> ast]
    ELSE LET merged == Append(ast, code)
             ran == EvalAst(merged, bindings)
         IN  [result |-> IF ran.ok THEN "Ok(())" ELSE "Err(ErrorRuntime)",
              returns |-> ran.returns, scope |-> ran.scope,
              main_ast |-> IF ran.ok THEN merged ELSE ast]

\* build_and_run (src/src/lib.rs 236-254): the text of the result, the AST
\* and the scope after the call; returns is FALSE when the evaluation never
\* ends, and the call with it
build_and_run(bindings, code, ast) ==
    IF ~Compiles(code)
    THEN [result |-> "Err(ErrorParsing)", returns |-> TRUE, scope |-> bindings, main_ast |-> ast]
    ELSE LET merged == Append(ast, code)
             ran == EvalAst(merged, bindings)
         IN  [result |-> IF ran.ok THEN "Ok(())" ELSE "Err(ErrorRuntime)",
              returns |-> ran.returns, scope |-> ran.scope, main_ast |-> merged]

\* A value serde_json::from_value::<Dynamic> gives Err for; which values
\* these are is the runtime's.
Unconvertible == [t |-> "Unconvertible", n |-> 0]

\* serde_json::from_value::<Dynamic>(v).ok() is Some
Deserializes(value) == value # Unconvertible

\* the type names of the arguments of a call, as the runtime prints them
RECURSIVE TypeNames(_)
TypeNames(args) ==
    IF args = <<>> THEN ""
    ELSE (IF Head(args).t = "Object" THEN "map" ELSE "()")
         \o (IF Len(args) > 1 THEN ", " ELSE "") \o TypeNames(Tail(args))

\* Engine::call_fn: the function is looked up in the AST by its name and the
\* number of arguments; foo takes one argument and returns its property
\* `number`, which a map has and the unit value has not. json is the result
\* as serde_json::to_string_pretty prints it.
CallFn(ast, fn_name, args) ==
    IF (\E i \in DOMAIN ast : fn_name \in Defines(ast[i])) /\ Len(args) = 1
    THEN IF args[1].t = "Object"
         THEN [ok |-> TRUE, json |-> ToString(args[1].n), err |-> ""]
         ELSE [ok |-> FALSE, json |-> "", err |-> "ErrorDotExpr"]
    ELSE [ok |-> FALSE, json |-> "",
          err |-> "ErrorFunctionNotFound(" \o fn_name \o " (" \o TypeNames(args) \o "))"]

---------------------------------------------------------------------------
(* The three threads and their channels: EditorState::new (src/src/lib.rs  *)
(* 272-444) and the drain loop of EditorState::update (496-519).           *)
(* A panic of the render thread, which is the main thread, ends the        *)
(* process: no thread takes a step after it.                               *)

\* Requests sent in a run, and records yielded by all its sessions together.
MaxRequests == 2
MaxRecords == 2

\* WorkerMessage and StreamMessages, each with the id of the request (history)
Eval(code, id) == [tag |-> "Eval", code |-> code, args |-> <<>>, id |-> id]
EvalWithArgs(fn_name, args, id) ==
    [tag |-> "EvalWithArgs", code |-> fn_name, args |-> args, id |-> id]
Reset(id) == [tag |-> "Reset", code |-> "", args |-> <<>>, id |-> id]
Build(id) == [tag |-> "Build", code |-> "", args |-> <<>>, id |-> id]
Run(start, stop, id) ==
    [tag |-> "Run", start |-> start, stop |-> stop, cache_slot |-> 0, id |-> id]
GetBlock(number, cache_slot, id) ==
    [tag |-> "GetBlock", start |-> number, stop |-> number + 1, cache_slot |-> cache_slot,
     id |-> id]

Alive == gui_thread = "running"

NoSession == [req |-> 0, cache_slot |-> 0]

\* try_recv taking the newest message of the channel
try_recv_newest(queue) ==
    [msg |-> queue[Len(queue)], rest |-> SubSeq(queue, 1, Len(queue) - 1)]

\* Receiver::try_recv on a channel that holds a message: Ok(msg) with the
\* oldest message, which leaves the channel
try_recv(queue) == [msg |-> Head(queue), rest |-> Tail(queue)]

\* the outbound channel as a rendezvous channel of one place: a send waits
\* until the place is free
GuiSend_bounded(thread, msgs) ==
    /\ Len(gui_receiver) + Len(msgs) <= 1
    /\ gui_receiver' = gui_receiver \o msgs
    /\ emitted' = [emitted EXCEPT ![thread] = @ \o msgs]

\* gui_sender.send(msg).unwrap() for each of msgs: the channel is unbounded,
\* the send appends and returns
GuiSend(thread, msgs) ==
    /\ gui_receiver' = gui_receiver \o msgs
    /\ emitted' = [emitted EXCEPT ![thread] = @ \o msgs]

\* worker_sender.send(message).unwrap() by the render thread
SendWorker(message) ==
    /\ Alive
    /\ next_id <= MaxRequests
    /\ worker_rec' = Append(worker_rec, message)
    /\ sent' = [sent EXCEPT !.worker = Append(@, message.id),
                            !.early = IF worker_thread = "spawned"
                                      THEN @ \cup {message.id} ELSE @]
    /\ next_id' = next_id + 1
    /\ UNCHANGED <<stream_rec, gui_receiver, worker_thread, stream_thread, session, yielded,
                   scope, main_ast, handled, emitted, applied>>
    /\ UNCHANGED <<cacheVars, genVars>>

\* stream_sender.send(message).unwrap() by the render thread
SendStream(message) ==
    /\ Alive
    /\ next_id <= MaxRequests
    /\ stream_rec' = Append(stream_rec, message)
    /\ sent' = [sent EXCEPT !.stream = Append(@, message.id)]
    /\ next_id' = next_id + 1
    /\ UNCHANGED <<worker_rec, gui_receiver, worker_thread, stream_thread, session, yielded,
                   scope, main_ast, handled, emitted, applied>>
    /\ UNCHANGED <<cacheVars, genVars>>

\* the "Get" button sending the request for slot 2
GetClicked_slot_2(number) == SendStream(GetBlock(number, 2, next_id))

\* BlockCache::show, ui.button("Get").clicked(): the request for the block
\* number of the text field, with cache_slot: 1
GetClicked(number) == SendStream(GetBlock(number, 1, next_id))

\* the text of the notice of the button Eval Block for foo (the source
\* writes foo between backquotes, which a string here cannot hold)
EvalBlockNotice == "Evaluating block for 'foo'"

\* the button reading slot 2
EvalBlockClicked_reading_slot_2 ==
    /\ Alive
    /\ next_id <= MaxRequests
    /\ gui_receiver' = Append(gui_receiver, PushMessage(EvalBlockNotice, next_id))
    /\ worker_rec' = Append(worker_rec, EvalWithArgs("foo", <<get(block_cache, 2)>>, next_id))
    /\ sent' = [sent EXCEPT !.worker = Append(@, next_id),
                            !.early = IF worker_thread = "spawned"
                                      THEN @ \cup {next_id} ELSE @]
    /\ next_id' = next_id + 1
    /\ UNCHANGED <<stream_rec, worker_thread, stream_thread, session, yielded,
                   scope, main_ast, handled, emitted, applied>>
    /\ UNCHANGED <<cacheVars, genVars>>

\* the button Eval Block for foo clicked (src/src/lib.rs 621-634): the
\* render thread reads slot 1, sends the notice on its own gui_sender and
\* then the request to the worker thread; no thread can see the request
\* before the notice is in the outbound channel
EvalBlockClicked ==
    /\ Alive
    /\ next_id <= MaxRequests
    /\ gui_receiver' = Append(gui_receiver, PushMessage(EvalBlockNotice, next_id))
    /\ worker_rec' = Append(worker_rec, EvalWithArgs("foo", <<get(block_cache, 1)>>, next_id))
    /\ sent' = [sent EXCEPT !.worker = Append(@, next_id),
                            !.early = IF worker_thread = "spawned"
                                      THEN @ \cup {next_id} ELSE @]
    /\ next_id' = next_id + 1
    /\ UNCHANGED <<stream_rec, worker_thread, stream_thread, session, yielded,
                   scope, main_ast, handled, emitted, applied>>
    /\ UNCHANGED <<cacheVars, genVars>>

\* the worker thread starts: the engine is set up and the loop entered
WorkerStart ==
    /\ Alive
    /\ worker_thread = "spawned"
    /\ worker_thread' = "polling"
    /\ UNCHANGED <<worker_rec, stream_rec, gui_receiver, stream_thread, session, yielded,
                   scope, main_ast, sent, handled, emitted, applied, next_id>>
    /\ UNCHANGED <<cacheVars, genVars>>

\* the worker thread taking a request only while no streaming session is open
WorkerTakes_between_sessions(tag) ==
    /\ Alive
    /\ worker_thread = "polling"
    /\ stream_thread \in {"spawned", "polling"}
    /\ worker_rec # <<>>
    /\ try_recv(worker_rec).msg.tag = tag
    /\ worker_rec' = try_recv(worker_rec).rest
    /\ handled' = [handled EXCEPT !.worker = Append(@, try_recv(worker_rec).msg.id)]
    /\ UNCHANGED <<stream_rec, stream_thread, session, yielded, sent, applied, next_id>>
    /\ UNCHANGED <<cacheVars, genVars>>

\* worker_rec.try_recv() gives Ok(msg) with msg of variant tag
WorkerTakes(tag) ==
    /\ Alive
    /\ worker_thread = "polling"
    /\ worker_rec # <<>>
    /\ try_recv(worker_rec).msg.tag = tag
    /\ worker_rec' = try_recv(worker_rec).rest
    /\ handled' = [handled EXCEPT !.worker = Append(@, try_recv(worker_rec).msg.id)]
    /\ UNCHANGED <<stream_rec, stream_thread, session, yielded, sent, applied, next_id>>
    /\ UNCHANGED <<cacheVars, genVars>>

\* the Eval arm leaving the loop when build_and_run gives an Err
WorkerEval_stops_on_error ==
    /\ Alive
    /\ worker_thread = "polling"
    /\ worker_rec # <<>>
    /\ try_recv(worker_rec).msg.tag = "Eval"
    /\ worker_rec' = try_recv(worker_rec).rest
    /\ handled' = [handled EXCEPT !.worker = Append(@, try_recv(worker_rec).msg.id)]
    /\ LET msg == try_recv(worker_rec).msg
           ran == build_and_run(scope, msg.code, main_ast)
       IN  /\ scope' = ran.scope
           /\ main_ast' = ran.main_ast
           /\ worker_thread' = IF ran.result = "Ok(())" THEN "polling" ELSE "stopped"
           /\ GuiSend("worker", <<PushMessage("Result: " \o ran.result, msg.id)>>)
    /\ UNCHANGED <<stream_rec, stream_thread, session, yielded, sent, applied, next_id>>
    /\ UNCHANGED <<cacheVars, genVars>>

\* WorkerMessage::Eval(code)
WorkerEval ==
    /\ WorkerTakes("Eval")
    /\ LET msg == try_recv(worker_rec).msg
           ran == build_and_run(scope, msg.code, main_ast)
       IN  /\ scope' = ran.scope
           /\ main_ast' = ran.main_ast
           /\ IF ran.returns
              THEN /\ GuiSend("worker", <<PushMessage("Result: " \o ran.result, msg.id)>>)
                   /\ worker_thread' = "polling"
              ELSE /\ UNCHANGED <<gui_receiver, emitted>>
                   /\ worker_thread' = "evaluating"

\* the EvalWithArgs arm passing the unit value for an argument that does
\* not convert
WorkerEvalWithArgs_placeholder ==
    /\ WorkerTakes("EvalWithArgs")
    /\ LET msg == try_recv(worker_rec).msg
           args == [n \in DOMAIN msg.args |->
                       IF Deserializes(msg.args[n]) THEN msg.args[n] ELSE JsonNull]
           result == CallFn(main_ast, msg.code, args)
       IN  GuiSend("worker", <<IF result.ok
                               THEN PushJson(result.json, msg.id)
                               ELSE PushMessage("Error: " \o result.err, msg.id)>>)
    /\ UNCHANGED <<scope, main_ast, worker_thread>>

\* WorkerMessage::EvalWithArgs(fn_name, args)
WorkerEvalWithArgs ==
    /\ WorkerTakes("EvalWithArgs")
    /\ LET msg == try_recv(worker_rec).msg
           args == SelectSeq(msg.args, Deserializes)
           result == CallFn(main_ast, msg.code, args)
       IN  GuiSend("worker", <<IF result.ok
                               THEN PushJson(result.json, msg.id)
                               ELSE PushMessage("Error: " \o result.err, msg.id)>>)
    /\ UNCHANGED <<scope, main_ast, worker_thread>>

\* the Reset arm emptying the accumulated AST as well
WorkerReset_clearing_ast ==
    /\ WorkerTakes("Reset")
    /\ GuiSend("worker", <<ClearMessages(try_recv(worker_rec).msg.id)>>)
    /\ scope' = {}
    /\ main_ast' = <<>>
    /\ UNCHANGED worker_thread

\* WorkerMessage::Reset
WorkerReset ==
    /\ WorkerTakes("Reset")
    /\ GuiSend("worker", <<ClearMessages(try_recv(worker_rec).msg.id)>>)
    /\ scope' = {}
    /\ UNCHANGED <<main_ast, worker_thread>>

\* WorkerMessage::Build: what evaluating "codegen()" gives is the runtime's
WorkerBuild(ok) ==
    /\ WorkerTakes("Build")
    /\ GuiSend("worker",
               <<PushMessage("Build Log: " \o (IF ok THEN "Ok(())" ELSE "Err(ErrorRuntime)"),
                             try_recv(worker_rec).msg.id)>>)
    /\ UNCHANGED <<scope, main_ast, worker_thread>>

\* the stream thread starts: the runtime is created and the loop entered
StreamStart ==
    /\ Alive
    /\ stream_thread = "spawned"
    /\ stream_thread' = "polling"
    /\ UNCHANGED <<worker_rec, stream_rec, gui_receiver, worker_thread, session, yielded,
                   scope, main_ast, sent, handled, emitted, applied, next_id>>
    /\ UNCHANGED <<cacheVars, genVars>>

SessionLog(msg, opened) ==
    [req |-> msg.id, tag |-> msg.tag, cache_slot |-> msg.cache_slot, opened |-> opened,
     records |-> <<>>, closed |-> ~opened]

\* the stream thread taking the next request while a session is open
StreamTakes_while_open(tag, opens) ==
    /\ Alive
    /\ stream_thread \in {"polling", "run", "get_block"}
    /\ stream_rec # <<>>
    /\ try_recv(stream_rec).msg.tag = tag
    /\ stream_rec' = try_recv(stream_rec).rest
    /\ handled' = [handled EXCEPT !.stream = Append(@, try_recv(stream_rec).msg.id)]
    /\ yielded' = Append(yielded, SessionLog(try_recv(stream_rec).msg, opens))
    /\ session' = IF opens
                  THEN [req |-> try_recv(stream_rec).msg.id,
                        cache_slot |-> try_recv(stream_rec).msg.cache_slot]
                  ELSE NoSession
    /\ UNCHANGED <<worker_rec, worker_thread, scope, main_ast, sent, applied, next_id>>
    /\ UNCHANGED <<cacheVars, genVars>>

\* stream_rec.try_recv() gives Ok(msg) with msg of variant tag, and
\* start_stream_channel(stream_config).await gives Ok(rx) (opens) or Err
StreamTakes(tag, opens) ==
    /\ Alive
    /\ stream_thread = "polling"
    /\ stream_rec # <<>>
    /\ try_recv(stream_rec).msg.tag = tag
    /\ stream_rec' = try_recv(stream_rec).rest
    /\ handled' = [handled EXCEPT !.stream = Append(@, try_recv(stream_rec).msg.id)]
    /\ yielded' = Append(yielded, SessionLog(try_recv(stream_rec).msg, opens))
    /\ session' = IF opens
                  THEN [req |-> try_recv(stream_rec).msg.id,
                        cache_slot |-> try_recv(stream_rec).msg.cache_slot]
                  ELSE NoSession
    /\ UNCHANGED <<worker_rec, worker_thread, scope, main_ast, sent, applied, next_id>>
    /\ UNCHANGED <<cacheVars, genVars>>

\* StreamMessages::Run: the session opens, or it does not; the stop message
\* is sent after the failure notice too
StreamRun(opens) ==
    /\ StreamTakes("Run", opens)
    /\ LET msg == try_recv(stream_rec).msg
           start_message == "Starting stream from " \o ToString(msg.start) \o " to "
                            \o ToString(msg.stop)
       IN  IF opens
           THEN /\ GuiSend("stream", <<PushMessage(start_message, msg.id)>>)
                /\ stream_thread' = "run"
           ELSE /\ GuiSend("stream",
                           <<PushMessage("Failed to start stream", msg.id),
                             PushMessage("Stream Completed Successfully", msg.id)>>)
                /\ stream_thread' = "polling"

\* the GetBlock arm writing null into the slot when the session does not open
StreamGetBlock_null_on_failure(opens) ==
    /\ StreamTakes("GetBlock", opens)
    /\ LET msg == try_recv(stream_rec).msg
           start_message == "Getting block " \o ToString(msg.start)
       IN  IF opens
           THEN /\ GuiSend("stream", <<PushMessage(start_message, msg.id)>>)
                /\ stream_thread' = "get_block"
           ELSE /\ GuiSend("stream", <<PushMessage("Failed to get block", msg.id),
                                       SetBlock(msg.cache_slot, "null", msg.id)>>)
                /\ stream_thread' = "polling"

\* StreamMessages::GetBlock: the session opens, or it does not
StreamGetBlock(opens) ==
    /\ StreamTakes("GetBlock", opens)
    /\ LET msg == try_recv(stream_rec).msg
           start_message == "Getting block " \o ToString(msg.start)
       IN  IF opens
           THEN /\ GuiSend("stream", <<PushMessage(start_message, msg.id)>>)
                /\ stream_thread' = "get_block"
           ELSE /\ GuiSend("stream", <<PushMessage("Failed to get block", msg.id)>>)
                /\ stream_thread' = "polling"

RECURSIVE RecordsYielded(_)
RecordsYielded(log) ==
    IF log = <<>> THEN 0 ELSE Len(Head(log).records) + RecordsYielded(Tail(log))

\* the body of the GetBlock loop sending what the Run loop sends
RecordMessage_as_json(data) == PushJson(data, session.req)

\* the body of `while let Ok(data) = rx.recv()`: Run sends PushJson(data),
\* GetBlock sends SetBlock(cache_slot, data)
RecordMessage(data) ==
    IF stream_thread = "run"
    THEN PushJson(data, session.req)
    ELSE SetBlock(session.cache_slot, data, session.req)

\* `while let Ok(data) = rx.recv()`: the open session yields the record data
StreamYield(data) ==
    /\ Alive
    /\ stream_thread \in {"run", "get_block"}
    /\ RecordsYielded(yielded) < MaxRecords
    /\ GuiSend("stream", <<RecordMessage(data)>>)
    /\ yielded' = [yielded EXCEPT ![Len(yielded)].records = Append(@, data)]
    /\ UNCHANGED <<worker_rec, stream_rec, worker_thread, stream_thread, session, scope,
                   main_ast, sent, handled, applied, next_id>>
    /\ UNCHANGED <<cacheVars, genVars>>

\* the session closing with no stop message
StreamClose_silent ==
    /\ Alive
    /\ stream_thread \in {"run", "get_block"}
    /\ UNCHANGED <<gui_receiver, emitted>>
    /\ stream_thread' = "polling"
    /\ session' = NoSession
    /\ yielded' = [yielded EXCEPT ![Len(yielded)].closed = TRUE]
    /\ UNCHANGED <<worker_rec, stream_rec, worker_thread, scope, main_ast, sent, handled,
                   applied, next_id>>
    /\ UNCHANGED <<cacheVars, genVars>>

\* rx.recv() gives Err: the session has closed
StreamClose ==
    /\ Alive
    /\ stream_thread \in {"run", "get_block"}
    /\ IF stream_thread = "run"
       THEN GuiSend("stream", <<PushMessage("Stream Completed Successfully", session.req)>>)
       ELSE UNCHANGED <<gui_receiver, emitted>>
    /\ stream_thread' = "polling"
    /\ session' = NoSession
    /\ yielded' = [yielded EXCEPT ![Len(yielded)].closed = TRUE]
    /\ UNCHANGED <<worker_rec, stream_rec, worker_thread, scope, main_ast, sent, handled,
                   applied, next_id>>
    /\ UNCHANGED <<cacheVars, genVars>>

\* `while let Ok(msg) = gui_receiver.try_recv()`: the render thread takes the
\* oldest outbound message and applies it
GuiRecv ==
    /\ Alive
    /\ gui_receiver # <<>>
    /\ LET msg == try_recv(gui_receiver).msg
           arm == OnGuiMessage(block_cache, messages, msg)
       IN  /\ block_cache' = arm.block_cache
           /\ messages' = arm.messages
           /\ gui_thread' = IF arm.panicked THEN "panicked" ELSE "running"
           /\ applied' = IF msg.tag = "SetBlock" /\ ~arm.panicked /\ msg.slot \in ValidSlots
                         THEN [applied EXCEPT ![msg.slot] = msg.req]
                         ELSE applied
    /\ gui_receiver' = try_recv(gui_receiver).rest
    /\ UNCHANGED <<call, written>>
    /\ UNCHANGED <<worker_rec, stream_rec, worker_thread, stream_thread, session, yielded,
                   scope, main_ast, sent, handled, emitted, next_id>>
    /\ UNCHANGED genVars

---------------------------------------------------------------------------
(* The state after EditorState::new, before any thread has run.            *)

BusInit ==
    /\ worker_rec = <<>>
    /\ stream_rec = <<>>
    /\ gui_receiver = <<>>
    /\ worker_thread = "spawned"
    /\ stream_thread = "spawned"
    /\ session = NoSession
    /\ yielded = <<>>
    /\ scope = {}
    /\ main_ast = <<>>
    /\ sent = [worker |-> <<>>, stream |-> <<>>, early |-> {}]
    /\ handled = [worker |-> <<>>, stream |-> <<>>]
    /\ emitted = [worker |-> <<>>, stream |-> <<>>]
    /\ applied = [slot \in ValidSlots |-> 0]
    /\ next_id = 1

GraphInit ==
    /\ modules = build_default_modules(1, 2)
    /\ order = <<1, 2>>
    /\ gen = <<>>

InitCache == CacheInit /\ GraphInit /\ BusInit

SpecCache == InitCache /\ [][CacheNext]_vars

\* The requests a caller of the channels sends, and the records a streaming
\* session yields. Spec runs the three threads together, with two kinds of
\* request on each channel; SpecWorker runs the worker thread and SpecStream
\* the stream thread, each against the render thread, on every kind of
\* request, script and record; the slots of its requests are an invalid
\* slot and two of the valid ones.
BlockNumbers == {100}
StreamTexts == {"{\"number\":100}", "{\"number\":101}", "{\"number\":"}
StreamSlots == {0, 1, 2}
EvalArgs == {<<>>, <<JsonObject(100)>>, <<Unconvertible, JsonObject(101)>>,
             <<JsonNull, Unconvertible, JsonObject(100)>>}

Next ==
    \/ SendWorker(Eval("let x = 1;", next_id))
    \/ SendWorker(Reset(next_id))
    \/ SendStream(Run(100, 101, next_id))
    \/ \E number \in BlockNumbers : GetClicked(number)
    \/ WorkerStart
    \/ WorkerEval
    \/ WorkerReset
    \/ StreamStart
    \/ \E opens \in BOOLEAN : StreamRun(opens)
    \/ \E opens \in BOOLEAN : StreamGetBlock(opens)
    \/ \E data \in {"{\"number\":100}", "{\"number\":"} : StreamYield(data)
    \/ StreamClose
    \/ GuiRecv

NextWorker ==
    \/ \E code \in Scripts : SendWorker(Eval(code, next_id))
    \/ \E args \in EvalArgs : SendWorker(EvalWithArgs("foo", args, next_id))
    \/ SendWorker(Reset(next_id))
    \/ SendWorker(Build(next_id))
    \/ WorkerStart
    \/ WorkerEval
    \/ WorkerEvalWithArgs
    \/ WorkerReset
    \/ \E ok \in BOOLEAN : WorkerBuild(ok)
    \/ GuiRecv

NextStream ==
    \/ SendStream(Run(100, 101, next_id))
    \/ \E number \in BlockNumbers, cache_slot \in StreamSlots :
          SendStream(GetBlock(number, cache_slot, next_id))
    \/ StreamStart
    \/ \E opens \in BOOLEAN : StreamRun(opens)
    \/ \E opens \in BOOLEAN : StreamGetBlock(opens)
    \/ \E data \in StreamTexts : StreamYield(data)
    \/ StreamClose
    \/ GuiRecv

Init == CacheInit /\ GraphInit /\ BusInit

Spec == Init /\ [][Next]_vars

SpecWorker == Init /\ [][NextWorker]_vars

SpecStream == Init /\ [][NextStream]_vars

\* The worker thread is a thread of its own in a loop around try_recv: it
\* keeps taking steps while there is one to take. The render thread runs a
\* frame after a message arrives and drains the outbound channel in it.
WorkerThread ==
    \/ WorkerStart
    \/ WorkerEval
    \/ WorkerEvalWithArgs
    \/ WorkerReset
    \/ \E ok \in BOOLEAN : WorkerBuild(ok)

SpecWorkerLive == SpecWorker /\ WF_vars(WorkerThread) /\ WF_vars(GuiRecv)

\* The three threads with an evaluation that never ends among the requests.
\* The stream thread, a thread of its own too, keeps taking requests while it
\* is at its channel; what a session does and when, and whether an
\* evaluation ends, is not the program's: a session may stay open for ever.
NextStall ==
    \/ \E code \in {"let x = 1;", "loop {}"} : SendWorker(Eval(code, next_id))
    \/ SendStream(Run(100, 101, next_id))
    \/ WorkerStart
    \/ WorkerEval
    \/ StreamStart
    \/ \E opens \in BOOLEAN : StreamRun(opens)
    \/ StreamYield("{\"number\":100}")
    \/ StreamClose
    \/ GuiRecv

StreamServes ==
    \/ StreamStart
    \/ \E opens \in BOOLEAN : StreamRun(opens)

\* The button Eval Block for foo with what feeds it: "Run in repl" on
\* the code of foo, and "Get" filling slot 1.
NextEvalBlock ==
    \/ EvalBlockClicked
    \/ SendWorker(Eval(FooScript, next_id))
    \/ \E number \in BlockNumbers : GetClicked(number)
    \/ WorkerStart
    \/ WorkerEval
    \/ WorkerEvalWithArgs
    \/ StreamStart
    \/ \E opens \in BOOLEAN : StreamGetBlock(opens)
    \/ StreamYield("{\"number\":100}")
    \/ StreamClose
    \/ GuiRecv

SpecEvalBlock == Init /\ [][NextEvalBlock]_vars

SpecStall ==
    /\ Init /\ [][NextStall]_vars
    /\ WF_vars(WorkerStart \/ WorkerEval)
    /\ WF_vars(StreamServes)
    /\ WF_vars(GuiRecv)

---------------------------------------------------------------------------
(* The module panel: ModulePanel::ui (src/src/widgets/module_panel.rs),    *)
(* run by EditorState::update in every frame after it has called           *)
(* self.source_file() (src/src/lib.rs 468). One action is one frame in     *)
(* which one widget of the panel changed the graph.                        *)

\* Modules added to the default graph, counted by the keys random() can give
\* beyond the two of the default graph.
MaxAdded == 1

AppKeys == 1..(2 + MaxAdded)

\* the texts typed into the name field
TypedNames == {"foo", "bar"}

\* HashMap::insert(key, module) with the key random() gave, a key the map
\* does not hold: the entry is added; the iteration order of the map after
\* it is any order of its keys
Insert(key, module) ==
    /\ key \notin DOMAIN modules
    /\ modules' = [k \in DOMAIN modules \cup {key} |->
                      IF k = key THEN module ELSE modules[k]]
    /\ \E ord \in Perms(DOMAIN modules \cup {key}) : order' = ord

\* update() reaches the panel: the render thread runs and source_file()
\* (src/src/lib.rs 468) returned
PanelShown ==
    /\ Alive
    /\ ~source_file.panic

\* let source_file = self.source_file() at the start of update() panics
FramePanics ==
    /\ Alive
    /\ source_file.panic
    /\ gui_thread' = "panicked"
    /\ UNCHANGED <<block_cache, messages, call, written>>
    /\ UNCHANGED <<genVars, busVars>>

\* ui.button("Add Mfn").clicked()
AddMfn(key) ==
    /\ key \notin DOMAIN modules
    /\ PanelShown
    /\ Insert(key, Map("template_mfn", "fn template_mfn(BLOCK) { block.number }",
                       <<"BLOCK">>, TRUE))
    /\ UNCHANGED gen
    /\ UNCHANGED <<cacheVars, busVars>>

\* ui.button("Add SFN").clicked()
AddSfn(key) ==
    /\ key \notin DOMAIN modules
    /\ PanelShown
    /\ Insert(key, Store("template_sfn", "fn template_sfn(test_map,s) { s.set(test_map); }",
                         <<"test_map">>, "set", TRUE))
    /\ UNCHANGED gen
    /\ UNCHANGED <<cacheVars, busVars>>

\* ui.text_edit_singleline(name): the name of the module under key k, which
\* is being edited, becomes new_name
NameTyped(k, new_name) ==
    /\ k \in DOMAIN modules
    /\ modules[k].editing
    /\ modules[k].name # new_name
    /\ PanelShown
    /\ modules' = [modules EXCEPT ![k].name = new_name]
    /\ UNCHANGED <<order, gen>>
    /\ UNCHANGED <<cacheVars, busVars>>

\* module_names: the names of the modules, collected before the loop
module_names == {modules[k].name : k \in DOMAIN modules}

\* ComboBox::from_label("Input"): input j of the module under key k is set to
\* the name of a module or to "BLOCK"
InputChosen(k, j, choice) ==
    /\ k \in DOMAIN modules
    /\ modules[k].editing
    /\ j \in DOMAIN modules[k].inputs
    /\ choice \in module_names \cup {"BLOCK"}
    /\ modules[k].inputs[j] # choice
    /\ PanelShown
    /\ modules' = [modules EXCEPT ![k].inputs[j] = choice]
    /\ UNCHANGED <<order, gen>>
    /\ UNCHANGED <<cacheVars, busVars>>

AppNext ==
    \/ FramePanics
    \/ \E key \in AppKeys : AddMfn(key)
    \/ \E key \in AppKeys : AddSfn(key)
    \/ \E k \in AppKeys, new_name \in TypedNames : NameTyped(k, new_name)
    \/ \E k \in AppKeys, j \in 1..MaxInputs,
          choice \in TypedNames \cup {"test_store", "template_mfn", "template_sfn", "BLOCK"} :
          InputChosen(k, j, choice)

\* EditorState::new with the keys and the iteration order random() and the
\* HashMap gave
InitApp ==
    /\ CacheInit
    /\ BusInit
    /\ modules = build_default_modules(1, 2)
    /\ order \in Perms({1, 2})
    /\ gen = <<>>

SpecApp == InitApp /\ [][AppNext]_vars

InitGen == GenInit /\ CacheInit /\ BusInit

SpecGen == InitGen /\ [][GenNext]_vars

InitResolve == ResolveInit /\ CacheInit /\ BusInit

InitRename == GenInit /\ CacheInit /\ BusInit

SpecRename == InitRename /\ [][RenameNext]_vars

SpecResolve == InitResolve /\ [][ResolveNext]_vars

---------------------------------------------------------------------------
(* Properties of the Block Cache, checked under SpecCache.                 *)

\* C1: right after set(s, v) with s in {1,2,3,4}, get(s) returns v, whatever
\* the cache held before.
SetGetRoundTrip ==
    (call.op = "set" /\ call.block \in ValidSlots)
        => get(block_cache, call.block) = call.value

\* a slot holding a record is overwritten with null and reads null
SetGetRoundTripWitness ==
    /\ call.op = "set"
    /\ call.block = 3
    /\ call.value = JsonNull
    /\ call.before.block_3 = JsonObject(100)
    /\ get(block_cache, 3) = JsonNull

\* C2: from the default cache on, get(s) is null for every slot s in
\* {1,2,3,4} that has never been the target of a set.
NeverWrittenIsNull ==
    \A s \in ValidSlots : s \notin written => get(block_cache, s) = JsonNull

\* slot 2 has been written and holds a record, slot 4 never was and reads null
NeverWrittenIsNullWitness ==
    /\ written = {2}
    /\ get(block_cache, 2) = JsonObject(100)
    /\ call.op = "get"
    /\ call.block = 4
    /\ call.ret = JsonNull

\* C3: for a slot outside {1,2,3,4}, set changes no stored value and does not
\* panic, get returns null and does not panic, and the same holds when the
\* render thread applies a SetBlock message carrying such a slot.
InvalidSlotIsNoOp ==
    (call.op # "none" /\ call.block \notin ValidSlots)
        => /\ block_cache = call.before
           /\ gui_thread = "running"
           /\ (call.op = "get" => call.ret = JsonNull)

---------------------------------------------------------------------------
(* Properties of the code generator, checked under SpecGen.                *)

\* Every declared input of graph mods is the name of a module of the graph
\* or "BLOCK".
InputResolves(input, mods) ==
    input = "BLOCK" \/ \E k \in DOMAIN mods : mods[k].name = input
Resolves(mods) ==
    \A k \in DOMAIN mods : \A j \in DOMAIN mods[k].inputs :
        InputResolves(mods[k].inputs[j], mods)

\* Reading a generated text back: the descriptors between positions i and
\* last, and the registration statement whose function stands at position i.
RECURSIVE Descriptors(_, _, _)
Descriptors(text, i, last) ==
    IF i > last THEN <<>>
    ELSE IF text[i] = SourceDesc
         THEN <<[kind |-> "source", name |-> ""]>> \o Descriptors(text, i + 1, last)
    ELSE IF text[i] = MapDescOpen
         THEN <<[kind |-> "map", name |-> text[i + 1]]>> \o Descriptors(text, i + 3, last)
    ELSE IF text[i] = StoreDescOpen
         THEN <<[kind |-> "store", name |-> text[i + 1]]>> \o Descriptors(text, i + 3, last)
    ELSE Descriptors(text, i + 1, last)

StatementAt(text, i) ==
    LET close == CHOOSE c \in i..Len(text) :
                    /\ text[c] = HandlerOpen
                    /\ \A d \in i..(c - 1) : text[d] # HandlerOpen
    IN  [function |-> text[i],
         name |-> text[i + 2],
         inputs |-> Descriptors(text, i + 4, close - 1),
         handler |-> text[close + 1],
         body |-> text[close + 3]]

RegistrationAt(text) == {i \in DOMAIN text : text[i] \in {"add_mfn", "add_sfn"}}

RECURSIVE Ascending(_)
Ascending(S) ==
    IF S = {} THEN <<>>
    ELSE LET least == CHOOSE x \in S : \A y \in S : x <= y
         IN  <<least>> \o Ascending(S \ {least})

\* The registration statements of a text, in the order of the text
Statements(text) ==
    LET at == Ascending(RegistrationAt(text))
    IN  [n \in DOMAIN at |-> StatementAt(text, at[n])]

\* Descriptor d stands for declared input `input`
DescribesInput(d, input) ==
    \/ d.kind = "source" /\ input = "BLOCK"
    \/ d.kind \in {"map", "store"} /\ d.name = input

\* Statement st registers module m: as many descriptors as declared inputs,
\* in declared order.
Registers(st, m) ==
    /\ st.name = m.name
    /\ Len(st.inputs) = Len(m.inputs)
    /\ \A j \in DOMAIN m.inputs : DescribesInput(st.inputs[j], m.inputs[j])

\* C4: for a graph whose inputs all resolve, source_file emits exactly one
\* registration statement per module, each with as many input descriptors as
\* the module declares inputs, in declared order.
OneRegistrationPerModule ==
    \A c \in DOMAIN gen :
        LET mods == gen[c].before[1]
            ord == gen[c].before[2]
            st == Statements(gen[c].result.text)
        IN  Resolves(mods) =>
                /\ ~gen[c].result.panic
                /\ Len(st) = Cardinality(DOMAIN mods)
                /\ \A n \in DOMAIN st : Registers(st[n], mods[ord[n]])

\* a module with the two inputs "foo", "BLOCK" in a graph of two modules
OneRegistrationPerModuleWitness ==
    /\ gen # <<>>
    /\ Cardinality(DOMAIN modules) = 2
    /\ \E k \in DOMAIN modules : modules[k].inputs = <<"foo", "BLOCK">>
    /\ Resolves(modules)
    /\ ~gen[1].result.panic
    /\ Len(Statements(gen[1].result.text)) = 2

\* C5: for a graph with an input that is neither a module's name nor "BLOCK",
\* source_file fails and returns no text, wherever the offending module
\* stands in the iteration order.
UnresolvedInputFailsWhole ==
    \A c \in DOMAIN gen : ~Resolves(gen[c].before[1]) => gen[c].result.panic

\* the offending module is the last of two in iteration order
UnresolvedInputFailsWholeWitness ==
    /\ gen # <<>>
    /\ Len(order) = 2
    /\ \A j \in DOMAIN modules[order[1]].inputs :
          InputResolves(modules[order[1]].inputs[j], modules)
    /\ \E j \in DOMAIN modules[order[2]].inputs :
          ~InputResolves(modules[order[2]].inputs[j], modules)
    /\ gen[1].result.panic

Pieces(text) == {text[i] : i \in DOMAIN text}

\* C6: the error of a failed source_file names the module that declares the
\* unresolved input, and the input.
ErrorNamesModuleAndInput ==
    \A c \in DOMAIN gen :
        gen[c].result.panic =>
            \E k \in DOMAIN gen[c].before[1] :
                LET m == gen[c].before[1][k]
                IN  \E j \in DOMAIN m.inputs :
                        /\ ~InputResolves(m.inputs[j], gen[c].before[1])
                        /\ m.inputs[j] \in Pieces(gen[c].result.text)
                        /\ m.name \in Pieces(gen[c].result.text)

IsScenario(mods, key_foo, key_bar) ==
    /\ key_foo # key_bar
    /\ DOMAIN mods = {key_foo, key_bar}
    /\ mods[key_foo] = Map("foo", Body(key_foo), <<"BLOCK">>, TRUE)
    /\ mods[key_bar] = Store("bar", Body(key_bar), <<"foo">>, "set", TRUE)

FooBlock(body) ==
    "\nadd_mfn(#{\n    name: \"foo\",\n    inputs: [#{kind: \"source\"}],\n    handler: \"foo\"\n});\n"
    \o body \o "\n"
BarBlock(body) ==
    "\nadd_sfn(#{\n    name: \"bar\",\n    inputs: [#{kind: \"map\", name: \"foo\"}],\n    handler: \"bar\"\n});\n"
    \o body \o "\n"

\* C8 as claimed: for that graph source_file emits the add_mfn registration
\* of "foo" with one source descriptor, foo's body, the add_sfn registration
\* of "bar" with one map descriptor named "foo", bar's body, in this order,
\* under every key assignment and iteration order.
ScenarioFooThenBar ==
    \A c \in DOMAIN gen : \A key_foo, key_bar \in Keys :
        IsScenario(gen[c].before[1], key_foo, key_bar) =>
            /\ ~gen[c].result.panic
            /\ Flatten(gen[c].result.text)
                   = FooBlock(Body(key_foo)) \o BarBlock(Body(key_bar))

\* C8 as amended: the two blocks are emitted in the iteration order of the
\* graph store, foo's block first when foo's key is iterated first and bar's
\* block first when bar's key is.
ScenarioInIterationOrder ==
    \A c \in DOMAIN gen : \A key_foo, key_bar \in Keys :
        IsScenario(gen[c].before[1], key_foo, key_bar) =>
            /\ ~gen[c].result.panic
            /\ Flatten(gen[c].result.text)
                   = IF gen[c].before[2][1] = key_foo
                     THEN FooBlock(Body(key_foo)) \o BarBlock(Body(key_bar))
                     ELSE BarBlock(Body(key_bar)) \o FooBlock(Body(key_foo))

\* the scenario graph generated with bar's key iterated first
ScenarioInIterationOrderWitness ==
    /\ gen # <<>>
    /\ \E key_foo, key_bar \in Keys :
          /\ IsScenario(modules, key_foo, key_bar)
          /\ order = <<key_bar, key_foo>>
    /\ ~gen[1].result.panic


---------------------------------------------------------------------------
\* The ids of the requests in a channel or carried by outbound messages
RECURSIVE Ids(_)
Ids(queue) == IF queue = <<>> THEN <<>> ELSE <<Head(queue).id>> \o Ids(Tail(queue))

RECURSIVE Reqs(_)
Reqs(queue) == IF queue = <<>> THEN <<>> ELSE <<Head(queue).req>> \o Reqs(Tail(queue))

IsSuffix(a, b) ==
    /\ Len(a) <= Len(b)
    /\ a = SubSeq(b, Len(b) - Len(a) + 1, Len(b))

NonDecreasing(ids) == \A i, j \in DOMAIN ids : i < j => ids[i] <= ids[j]

\* the order of first occurrence of the requests that caused a worker's messages
RECURSIVE Causes(_)
Causes(reqs) ==
    IF reqs = <<>> THEN <<>>
    ELSE LET front == Causes(SubSeq(reqs, 1, Len(reqs) - 1))
             last == reqs[Len(reqs)]
         IN  IF \E i \in DOMAIN front : front[i] = last THEN front ELSE Append(front, last)

From(thread, msg) == \E i \in DOMAIN sent[thread] : sent[thread][i] = msg.req
FromWorker(msg) == From("worker", msg)
FromStream(msg) == From("stream", msg)

Channels == {"worker", "stream"}
Inbound(thread) == IF thread = "worker" THEN worker_rec ELSE stream_rec
Outbound(thread) ==
    IF thread = "worker" THEN SelectSeq(gui_receiver, FromWorker)
    ELSE SelectSeq(gui_receiver, FromStream)

\* C9: on each of the two request channels, the requests the worker has
\* taken followed by the requests still in the channel are exactly the
\* requests sent, in send order (none lost, none taken twice, none out of
\* order), whether or not the worker had started when they were sent; the
\* messages one worker has sent follow the order of the requests that caused
\* them, and those of them still in the outbound channel are the last ones
\* it sent, in the order it sent them.
FifoWithoutLoss ==
    \A thread \in Channels :
        /\ handled[thread] \o Ids(Inbound(thread)) = sent[thread]
        /\ \A i, j \in DOMAIN sent[thread] : i # j => sent[thread][i] # sent[thread][j]
        /\ Causes(Reqs(emitted[thread])) =
               SubSeq(handled[thread], 1, Len(Causes(Reqs(emitted[thread]))))
        /\ NonDecreasing(Reqs(emitted[thread]))
        /\ IsSuffix(Outbound(thread), emitted[thread])

\* two requests were sent to the worker thread before it started; it has
\* taken both, and the message the second caused is the one still in the
\* outbound channel
FifoWithoutLossWitness ==
    /\ Len(sent.worker) = 2
    /\ \A i \in DOMAIN sent.worker : sent.worker[i] \in sent.early
    /\ handled.worker = sent.worker
    /\ Reqs(emitted.worker) = sent.worker
    /\ Reqs(gui_receiver) = <<sent.worker[2]>>
    /\ Alive

\* C10: a GetBlock request for a slot s of 1..4 whose session opened, yielded
\* exactly one record r and closed has caused exactly one SetBlock message,
\* SetBlock(s, r); and once the render thread has emptied the outbound
\* channel, with no later session having written slot s, get(s) is the JSON
\* value of r.
OneRecord(log) ==
    /\ log.tag = "GetBlock"
    /\ log.cache_slot \in ValidSlots
    /\ log.opened
    /\ log.closed
    /\ Len(log.records) = 1

SetBlocksOf(req) ==
    LET Caused(msg) == msg.tag = "SetBlock" /\ msg.req = req
    IN  SelectSeq(emitted.stream, Caused)

LastWriterOf(i) ==
    \A j \in DOMAIN yielded :
        (j > i /\ yielded[j].tag = "GetBlock" /\ yielded[j].cache_slot = yielded[i].cache_slot)
            => yielded[j].records = <<>>

Drained == Alive /\ gui_receiver = <<>>

SingleBlockReachesCache ==
    \A i \in DOMAIN yielded :
        OneRecord(yielded[i]) =>
            LET log == yielded[i]
                r == log.records[1]
            IN  /\ SetBlocksOf(log.req) =
                       <<[tag |-> "SetBlock", slot |-> log.cache_slot, text |-> r,
                          req |-> log.req]>>
                /\ (Drained /\ LastWriterOf(i)) =>
                       /\ from_str(r).ok
                       /\ get(block_cache, log.cache_slot) = from_str(r).value

\* GetBlock{number = 100, cache_slot = 2} yielded {"number":100}, the session
\* closed and the render thread has applied everything sent
SingleBlockReachesCacheWitness ==
    /\ \E i \in DOMAIN yielded :
          /\ OneRecord(yielded[i])
          /\ yielded[i].cache_slot = 2
          /\ yielded[i].records = <<"{\"number\":100}">>
          /\ LastWriterOf(i)
    /\ Drained
    /\ get(block_cache, 2) = JsonObject(100)


---------------------------------------------------------------------------
\* The worker thread takes the request at the head of its channel
WorkerStep == handled'.worker # handled.worker

\* the GuiMessages the worker thread sends in a step
WorkerSends == SubSeq(emitted'.worker, Len(emitted.worker) + 1, Len(emitted'.worker))

\* the result texts of build_and_run that report an error
ErrorResults == {"Result: Err(ErrorParsing)", "Result: Err(ErrorRuntime)"}

\* C11: whenever the worker thread handles Eval(code) with a code that does
\* not compile, it sends exactly one message for the request, a PushMessage
\* (shown as a TextMessage) whose text is the Err of the compilation, and its
\* scope is after the step what it was before; and no request the worker
\* has handled has more than that one message among those the worker sent.
CompileErrorOneMessageScopeKept ==
    /\ [](\A i \in DOMAIN handled.worker :
            Cardinality({n \in DOMAIN emitted.worker :
                            emitted.worker[n].req = handled.worker[i]}) = 1)
    /\ [][(WorkerStep /\ Head(worker_rec).tag = "Eval" /\ ~Compiles(Head(worker_rec).code))
            => /\ Len(WorkerSends) = 1
               /\ WorkerSends[1].tag = "PushMessage"
               /\ WorkerSends[1].req = Head(worker_rec).id
               /\ WorkerSends[1].text \in ErrorResults
               /\ OnGuiMessage(block_cache, <<>>, WorkerSends[1]).messages =
                      <<TextMessage(WorkerSends[1].text)>>
               /\ scope' = scope]_vars

\* Eval("let x = 1;") has bound x, then Eval("bogus syntax") was handled: its
\* one message is in the log and x is still bound
CompileErrorOneMessageScopeKeptWitness ==
    /\ Len(handled.worker) = 2
    /\ scope = {"x"}
    /\ Len(emitted.worker) = 2
    /\ emitted.worker[2] = PushMessage("Result: Err(ErrorParsing)", 2)
    /\ messages = <<TextMessage("Result: Ok(())"), TextMessage("Result: Err(ErrorParsing)")>>


---------------------------------------------------------------------------
\* the GuiMessages the stream thread has sent for a request
StreamMessagesOf(req) ==
    LET Caused(msg) == msg.req = req
    IN  SelectSeq(emitted.stream, Caused)

\* C12: a Run request whose session failed to open has caused exactly one
\* message, the failure notice, and no PushJson; the stream thread is back
\* at its channel, with no session.
FailedRunOneNotice ==
    \A i \in DOMAIN yielded :
        (yielded[i].tag = "Run" /\ ~yielded[i].opened) =>
            /\ StreamMessagesOf(yielded[i].req) =
                   <<PushMessage("Failed to start stream", yielded[i].req)>>
            /\ yielded[i].records = <<>>
            /\ i = Len(yielded) => (stream_thread = "polling" /\ session = NoSession)


---------------------------------------------------------------------------
\* the sessions that are open
OpenSessions == {i \in DOMAIN yielded : yielded[i].opened /\ ~yielded[i].closed}

SessionOpen == stream_thread \in {"run", "get_block"}

\* the place of a request among those the stream thread has taken
TakenAt(req) == CHOOSE a \in DOMAIN handled.stream : handled.stream[a] = req

\* C13: at most one session is open, and it is the session of the request
\* the stream thread took last (no request has been taken from the channel
\* since it opened); and the messages the stream thread has sent stand
\* request by request, all those of an earlier request before all those of a
\* later one.
OneSessionInFlight ==
    /\ Cardinality(OpenSessions) <= 1
    /\ OpenSessions \subseteq {Len(yielded)}
    /\ Len(yielded) = Len(handled.stream)
    /\ \A i \in DOMAIN yielded : yielded[i].req = handled.stream[i]
    /\ SessionOpen <=> OpenSessions # {}
    /\ SessionOpen => session.req = yielded[Len(yielded)].req
    /\ \A i \in 1..(Len(emitted.stream) - 1) :
           TakenAt(emitted.stream[i].req) <= TakenAt(emitted.stream[i + 1].req)

\* a session is open and has yielded a record while a second request waits
\* in the channel
OneSessionInFlightWitness ==
    /\ SessionOpen
    /\ yielded[Len(yielded)].records # <<>>
    /\ stream_rec # <<>>
    /\ Len(sent.stream) = 2


---------------------------------------------------------------------------
RequestIds == 1..(MaxRequests + 1)

WorkerAnswered(id) ==
    /\ \E i \in DOMAIN handled.worker : handled.worker[i] = id
    /\ \E n \in DOMAIN emitted.worker : emitted.worker[n].req = id

\* a request the worker handled ended in an error: the Err of an Eval or a
\* Build, or the Error of an EvalWithArgs
CallErrors ==
    {"Error: " \o CallFn(ast, "foo", SelectSeq(args, Deserializes)).err :
        ast \in {<<>>, <<FooScript>>}, args \in EvalArgs} \ {"Error: "}

WorkerErrors == ErrorResults \cup CallErrors \cup {"Build Log: Err(ErrorRuntime)"}

ErrorBefore(id) ==
    \E n \in DOMAIN emitted.worker :
        /\ emitted.worker[n].req < id
        /\ emitted.worker[n].tag = "PushMessage"
        /\ emitted.worker[n].text \in WorkerErrors

\* C14: the worker thread never leaves its loop, and every request sent on
\* its channel, those sent after a request that ended in a compile or runtime
\* error included, is eventually taken by the worker and answered with its
\* message.
ErrorsKeepWorkerLive ==
    /\ [](worker_thread \in {"spawned", "polling"})
    /\ \A id \in RequestIds :
           (\E i \in DOMAIN sent.worker : sent.worker[i] = id) ~> WorkerAnswered(id)

\* the first request ended in an error and the second, sent after it was
\* answered, has been answered too
ErrorsKeepWorkerLiveWitness ==
    /\ Len(sent.worker) = 2
    /\ ErrorBefore(sent.worker[2])
    /\ WorkerAnswered(sent.worker[2])
    /\ sent.early = {}


---------------------------------------------------------------------------
\* C15: no two modules of the graph have the same name.
NamesUnique ==
    \A k1, k2 \in DOMAIN modules : modules[k1].name = modules[k2].name => k1 = k2

\* C16: every input of every module is the name of a module of the graph or
\* "BLOCK", and the call of source_file at the start of a frame does not
\* panic.
InputsResolve ==
    /\ Resolves(modules)
    /\ ~source_file.panic
    /\ Alive


---------------------------------------------------------------------------
\* the render thread can send a request: it runs, and the run has requests left
CanSend == Alive /\ next_id <= MaxRequests

\* the worker thread stands before a request at the head of its channel
WorkerHasRequest == Alive /\ worker_thread = "polling" /\ worker_rec # <<>>

\* the stream thread stands before a request at the head of its channel
StreamHasRequest == Alive /\ stream_thread = "polling" /\ stream_rec # <<>>

\* the open session hands the stream thread a record, or its end
SessionYields == Alive /\ SessionOpen /\ RecordsYielded(yielded) < MaxRecords
SessionEnds == Alive /\ SessionOpen

\* C17: no send waits. Whatever the three channels hold, the render thread
\* can send on both request channels, and a worker that has a message to
\* send (it has taken a request, or its session has handed it a record or
\* ended) sends it.
NoBackpressure ==
    /\ CanSend => /\ ENABLED SendWorker(Reset(next_id))
                  /\ ENABLED SendWorker(Eval("let x = 1;", next_id))
                  /\ ENABLED SendStream(Run(100, 101, next_id))
                  /\ ENABLED SendStream(GetBlock(100, 1, next_id))
    /\ WorkerHasRequest => ENABLED (WorkerEval \/ WorkerReset)
    /\ StreamHasRequest => /\ ENABLED (StreamRun(TRUE) \/ StreamGetBlock(TRUE))
                           /\ ENABLED (StreamRun(FALSE) \/ StreamGetBlock(FALSE))
    /\ SessionYields => ENABLED StreamYield("{\"number\":100}")
    /\ SessionEnds => ENABLED StreamClose

\* slow consumers: the worker thread has not started and a request waits in
\* its channel, the render thread has drained nothing and two messages wait
\* in the outbound channel, and the open session hands over another record
NoBackpressureWitness ==
    /\ worker_thread = "spawned"
    /\ worker_rec # <<>>
    /\ Len(gui_receiver) >= 2
    /\ messages = <<>>
    /\ SessionYields
    /\ ENABLED StreamYield("{\"number\":100}")


---------------------------------------------------------------------------
\* msg is a SetBlock the stream thread sent for a record of the session of a
\* GetBlock request that carries the slot of msg
FromGetBlock(msg) ==
    /\ msg.tag = "SetBlock"
    /\ \E n \in DOMAIN emitted.stream : emitted.stream[n] = msg
    /\ \E i \in DOMAIN yielded :
           /\ yielded[i].req = msg.req
           /\ yielded[i].tag = "GetBlock"
           /\ yielded[i].cache_slot = msg.slot
           /\ \E n \in DOMAIN yielded[i].records : yielded[i].records[n] = msg.text

---------------------------------------------------------------------------
WorkerStalled == worker_thread = "evaluating"

\* the messages of a request have left the outbound channel
Delivered(id) == \A n \in DOMAIN gui_receiver : gui_receiver[n].req # id

StreamTook(id) == \E i \in DOMAIN handled.stream : handled.stream[i] = id

\* C19: a request sent to the worker thread is answered and its message
\* delivered, unless the worker thread itself is inside an evaluation that
\* never ends, whether or not a streaming session stays open for ever; a
\* request sent to the stream thread is taken and its messages so far
\* delivered, unless the stream thread itself is inside a session that stays
\* open for ever, whether or not the worker thread is inside such an
\* evaluation; and with either of them stalled the render thread's sends are
\* enabled.
StallStallsOnlyItself ==
    /\ \A id \in RequestIds :
           (\E i \in DOMAIN sent.worker : sent.worker[i] = id)
               ~> ((WorkerAnswered(id) /\ Delivered(id)) \/ []WorkerStalled)
    /\ \A id \in RequestIds :
           (\E i \in DOMAIN sent.stream : sent.stream[i] = id)
               ~> ((StreamTook(id) /\ Delivered(id)) \/ []SessionOpen)
    /\ []((CanSend /\ (WorkerStalled \/ SessionOpen)) =>
             /\ ENABLED SendWorker(Eval("let x = 1;", next_id))
             /\ ENABLED SendStream(Run(100, 101, next_id)))

\* a session is open and has yielded nothing; the request sent to the
\* worker thread after the session's request has been answered and its
\* message is in the log
StallStallsOnlyItselfWitness ==
    /\ SessionOpen
    /\ yielded[Len(yielded)].records = <<>>
    /\ sent.stream = <<1>>
    /\ sent.worker = <<2>>
    /\ WorkerAnswered(2)
    /\ messages # <<>>
    /\ messages[Len(messages)] = TextMessage("Result: Ok(())")


---------------------------------------------------------------------------
\* the oldest outbound message is a record forwarded by the stream thread
\* whose text does not parse as JSON
MalformedRecordNext ==
    /\ gui_receiver # <<>>
    /\ try_recv(gui_receiver).msg.tag \in {"PushJson", "SetBlock"}
    /\ ~from_str(try_recv(gui_receiver).msg.text).ok

\* C20: when the render thread takes a forwarded record (PushJson or
\* SetBlock) that fails to parse as JSON, it keeps running, one notification
\* is added to the message log after the messages logged before, and the
\* Block Cache is unchanged.
MalformedRecordRecovered ==
    [][(GuiRecv /\ MalformedRecordNext) =>
           /\ gui_thread' = "running"
           /\ Len(messages') = Len(messages) + 1
           /\ SubSeq(messages', 1, Len(messages)) = messages
           /\ messages'[Len(messages')].kind = "TextMessage"
           /\ block_cache' = block_cache]_vars


---------------------------------------------------------------------------
(* Properties of input resolution, checked under SpecResolve.              *)

HasName(mods, name) == {k \in DOMAIN mods : mods[k].name = name}

\* C21: for a declared input that is the name of a module of the graph, the
\* descriptor is {kind: "map", name} or {kind: "store", name} after the
\* variant of a module of that name; the descriptor is {kind: "source"} only
\* when no module has that name and the input is "BLOCK", so that a module
\* named "BLOCK" goes before the sentinel.
ResolutionPrecedence ==
    \A c \in DOMAIN gen :
        LET input == gen[c].input
            named == HasName(gen[c].before[1], input)
            result == gen[c].result
        IN  /\ named # {} =>
                  /\ ~result.panic
                  /\ \E k \in named :
                        Flatten(result.text)
                            = IF gen[c].before[1][k].variant = "Map"
                              THEN "#{kind: \"map\", name: \"" \o input \o "\"}"
                              ELSE "#{kind: \"store\", name: \"" \o input \o "\"}"
            /\ (named = {} /\ input = "BLOCK") =>
                  /\ ~result.panic
                  /\ Flatten(result.text) = "#{kind: \"source\"}"
            /\ (~result.panic /\ Flatten(result.text) = "#{kind: \"source\"}") =>
                  (named = {} /\ input = "BLOCK")

\* the input "BLOCK" of a module in a graph that has a Store named "BLOCK"
\* is given the store descriptor
ResolutionPrecedenceWitness ==
    /\ gen # <<>>
    /\ gen[1].input = "BLOCK"
    /\ \E k \in DOMAIN modules : modules[k].name = "BLOCK" /\ modules[k].variant = "Store"
    /\ gen[1].result = Returned(<<StoreDescOpen, "BLOCK", DescClose>>)


---------------------------------------------------------------------------
\* The position of the handler field of the registration statement whose
\* function stands at position i
HandlerAt(text, i) ==
    CHOOSE c \in i..Len(text) :
        /\ text[c] = HandlerOpen
        /\ \A d \in i..(c - 1) : text[d] # HandlerOpen

\* C22: in the text source_file returns, the n-th block is that of the n-th
\* module in iteration order: its registration function is add_mfn exactly
\* for a Map and add_sfn exactly for a Store, its handler is the module's
\* name, the statement is followed at once by the module's code and a
\* newline, and the next block (or the end of the text) follows at once.
BlockShape ==
    \A c \in DOMAIN gen :
        ~gen[c].result.panic =>
            LET mods == gen[c].before[1]
                ord == gen[c].before[2]
                text == gen[c].result.text
                at == Ascending(RegistrationAt(text))
            IN  /\ Len(at) = Len(ord)
                /\ ord = <<>> => text = <<>>
                /\ ord # <<>> => at[1] = 2
                /\ \A n \in DOMAIN at :
                      LET m == mods[ord[n]]
                          h == HandlerAt(text, at[n])
                      IN  /\ text[at[n] - 1] = "\n"
                          /\ (text[at[n]] = "add_mfn") <=> (m.variant = "Map")
                          /\ (text[at[n]] = "add_sfn") <=> (m.variant = "Store")
                          /\ text[at[n] + 2] = m.name
                          /\ text[h + 1] = m.name
                          /\ text[h + 2] = StatementClose
                          /\ text[h + 3] = m.code
                          /\ text[h + 4] = "\n"
                          /\ IF n = Len(at) THEN Len(text) = h + 4 ELSE at[n + 1] = h + 6

\* a text of two blocks, one of a Map and one of a Store
BlockShapeWitness ==
    /\ gen # <<>>
    /\ ~gen[1].result.panic
    /\ Len(order) = 2
    /\ modules[order[1]].variant = "Store"
    /\ modules[order[2]].variant = "Map"
    /\ Len(Statements(gen[1].result.text)) = 2


---------------------------------------------------------------------------
\* the render thread takes a ClearMessages from the outbound channel
ClearMessagesNext ==
    /\ gui_receiver # <<>>
    /\ try_recv(gui_receiver).msg.tag = "ClearMessages"

\* C23: the worker thread handling Reset empties the scope, puts exactly one
\* ClearMessages on the outbound channel and leaves the accumulated AST as
\* it was; the render thread applying ClearMessages empties the message log
\* and leaves the Block Cache as it was.
ResetClearsScopeAndLog ==
    [][/\ WorkerReset =>
              /\ scope' = {}
              /\ main_ast' = main_ast
              /\ Len(gui_receiver') = Len(gui_receiver) + 1
              /\ SubSeq(gui_receiver', 1, Len(gui_receiver)) = gui_receiver
              /\ gui_receiver'[Len(gui_receiver')].tag = "ClearMessages"
              /\ Len(emitted'.worker) = Len(emitted.worker) + 1
       /\ (GuiRecv /\ ClearMessagesNext) =>
              /\ messages' = <<>>
              /\ block_cache' = block_cache
              /\ gui_thread' = "running"]_vars

\* Eval("let x = 1;") then Reset were handled and their two messages
\* applied: the scope and the log are empty, the AST holds the script
ResetClearsScopeAndLogWitness ==
    /\ main_ast = <<"let x = 1;">>
    /\ scope = {}
    /\ Len(emitted.worker) = 2
    /\ emitted.worker[1].tag = "PushMessage"
    /\ emitted.worker[2].tag = "ClearMessages"
    /\ gui_receiver = <<>>
    /\ messages = <<>>


---------------------------------------------------------------------------
\* C24: the worker thread handling EvalWithArgs(name, args) calls the function
\* with the arguments that convert, in their order in args and with nothing
\* in the place of those that do not, and sends exactly one message for the
\* request: a PushJson with the result (shown as a JsonMessage) when the call
\* succeeds, a PushMessage whose text starts with "Error: " when it fails.
EvalWithArgsDropsUnconverted ==
    [][(WorkerStep /\ Head(worker_rec).tag = "EvalWithArgs") =>
           LET msg == Head(worker_rec)
               kept == SelectSeq(msg.args, Deserializes)
               made == CallFn(main_ast, msg.code, kept)
           IN  /\ Len(WorkerSends) = 1
               /\ WorkerSends[1].req = msg.id
               /\ IF made.ok
                  THEN /\ WorkerSends[1].tag = "PushJson"
                       /\ WorkerSends[1].text = made.json
                       /\ OnGuiMessage(block_cache, <<>>, WorkerSends[1]).messages
                              = <<JsonMessage(from_str(made.json).value)>>
                  ELSE /\ WorkerSends[1].tag = "PushMessage"
                       /\ WorkerSends[1].text = "Error: " \o made.err
                       /\ OnGuiMessage(block_cache, <<>>, WorkerSends[1]).messages
                              = <<TextMessage("Error: " \o made.err)>>]_vars

\* foo was merged and then called with an argument that does not convert
\* before the block of number 101: the log holds the number 101
EvalWithArgsDropsUnconvertedWitness ==
    /\ main_ast = <<FooScript>>
    /\ Len(handled.worker) = 2
    /\ Len(emitted.worker) = 2
    /\ emitted.worker[2] = PushJson("101", handled.worker[2])
    /\ messages # <<>>
    /\ messages[Len(messages)] = JsonMessage(JsonNumber(101))


---------------------------------------------------------------------------
\* C25: the accumulated AST starts empty; an Eval whose text compiles appends
\* the text's unit to it whether or not the run then fails, and its result
\* and the scope after it are those of running the whole merged AST; every
\* other step, the handling of an Eval whose text does not compile, of an
\* EvalWithArgs, a Build or a Reset included, leaves the AST as it was. So the AST is at all times the units of the Eval texts
\* that compiled, in the order of the requests.
AccumulatedUnitAdditive ==
    /\ main_ast = <<>>
    /\ [][IF WorkerStep /\ Head(worker_rec).tag = "Eval" /\ Compiles(Head(worker_rec).code)
          THEN LET msg == Head(worker_rec)
                   ran == EvalAst(Append(main_ast, msg.code), scope)
               IN  /\ main_ast' = Append(main_ast, msg.code)
                   /\ scope' = ran.scope
                   /\ Len(WorkerSends) = 1
                   /\ WorkerSends[1].text
                          = IF ran.ok THEN "Result: Ok(())" ELSE "Result: Err(ErrorRuntime)"
          ELSE main_ast' = main_ast]_vars

\* Eval("throw 1;") failed and stayed merged; Eval("let x = 1;") after it ran
\* the merged AST, which failed again before x was bound
AccumulatedUnitAdditiveWitness ==
    /\ main_ast = <<"throw 1;", "let x = 1;">>
    /\ scope = {}
    /\ Len(emitted.worker) = 2
    /\ emitted.worker[1].text = "Result: Err(ErrorRuntime)"
    /\ emitted.worker[2].text = "Result: Err(ErrorRuntime)"


---------------------------------------------------------------------------
\* the start message of a Run request
IsRunStart(msg) ==
    /\ msg.tag = "PushMessage"
    /\ \E start \in BlockNumbers :
          msg.text = "Starting stream from " \o ToString(start) \o " to "
                     \o ToString(start + 1)

\* C26: for a Run request whose session opened, the messages the stream
\* thread has sent for it are the start message, then one PushJson (shown as
\* a JsonMessage) per record the session has yielded, in the order yielded,
\* and, once the session has closed, the completion message and nothing
\* after it.
RunForwardsEveryRecord ==
    \A i \in DOMAIN yielded :
        (yielded[i].tag = "Run" /\ yielded[i].opened) =>
            LET log == yielded[i]
                out == StreamMessagesOf(log.req)
                n == Len(log.records)
            IN  /\ Len(out) = 1 + n + (IF log.closed THEN 1 ELSE 0)
                /\ IsRunStart(out[1])
                /\ \A r \in 1..n : out[1 + r] = PushJson(log.records[r], log.req)
                /\ log.closed =>
                       out[n + 2] = PushMessage("Stream Completed Successfully", log.req)

\* a Run session yielded two different records and closed
RunForwardsEveryRecordWitness ==
    /\ Len(yielded) = 1
    /\ yielded[1].tag = "Run"
    /\ yielded[1].opened
    /\ yielded[1].closed
    /\ Len(yielded[1].records) = 2
    /\ yielded[1].records[1] # yielded[1].records[2]
    /\ Len(emitted.stream) = 4


---------------------------------------------------------------------------
\* the requests GetBlock whose session did not open
FailedGetBlocks ==
    {yielded[i].req : i \in {j \in DOMAIN yielded :
                                yielded[j].tag = "GetBlock" /\ ~yielded[j].opened}}

\* C27: a GetBlock request whose session failed to open has caused exactly
\* one message, the failure notice (shown as a TextMessage), and no SetBlock;
\* no slot of the Block Cache was written for it, and the render thread
\* applying its message leaves every slot as it was.
FailedGetBlockKeepsCache ==
    /\ [](\A req \in FailedGetBlocks :
             /\ StreamMessagesOf(req) = <<PushMessage("Failed to get block", req)>>
             /\ \A slot \in ValidSlots : applied[slot] # req)
    /\ [][(GuiRecv /\ try_recv(gui_receiver).msg.req \in FailedGetBlocks) =>
             /\ block_cache' = block_cache
             /\ messages' = Append(messages, TextMessage("Failed to get block"))]_vars

\* a GetBlock to slot 2 put block 100 there; a second GetBlock to slot 2
\* failed to open, its notice has been applied and the slot still holds
\* block 100
FailedGetBlockKeepsCacheWitness ==
    /\ Len(yielded) = 2
    /\ yielded[1].tag = "GetBlock" /\ yielded[1].cache_slot = 2 /\ yielded[1].closed
    /\ yielded[2].tag = "GetBlock" /\ yielded[2].cache_slot = 2 /\ ~yielded[2].opened
    /\ Drained
    /\ block_cache.block_2 = JsonObject(100)
    /\ messages[Len(messages)] = TextMessage("Failed to get block")


---------------------------------------------------------------------------
\* C28: a step that changes the name of the module under a key changes
\* nothing else: the graph has the same keys, the module is under the same
\* key with the same code, inputs and policy, every other entry is what it
\* was, and so is the iteration order; and no step takes a key away.
RenameKeepsKey ==
    [][/\ DOMAIN modules \subseteq DOMAIN modules'
       /\ \A k \in DOMAIN modules :
             modules'[k].name # modules[k].name =>
                 /\ DOMAIN modules' = DOMAIN modules
                 /\ modules' = [modules EXCEPT ![k].name = modules'[k].name]
                 /\ order' = order]_vars

\* a module that another module names as its input was renamed: it is under
\* its key with its code and its inputs, and the other module still declares
\* the input "foo"
RenameKeepsKeyWitness ==
    /\ DOMAIN modules = {1, 2}
    /\ modules[1] = Map("renamed", Body(1), <<"BLOCK">>, TRUE)
    /\ modules[2] = Store("bar", Body(2), <<"foo">>, "set", TRUE)


---------------------------------------------------------------------------
\* C29: for a GetBlock request whose session has yielded two records or
\* more, the stream thread has sent one SetBlock per record, each with the
\* cache slot of the request, in the order yielded; and once the session has
\* closed and the render thread has applied everything sent, the slot (a
\* valid one, not written for a later request) holds the last record.
LastRecordWins ==
    \A i \in DOMAIN yielded :
        (yielded[i].tag = "GetBlock" /\ yielded[i].opened /\ Len(yielded[i].records) >= 2) =>
            LET log == yielded[i]
                n == Len(log.records)
            IN  /\ SetBlocksOf(log.req)
                       = [r \in 1..n |-> SetBlock(log.cache_slot, log.records[r], log.req)]
                /\ (log.closed /\ Drained /\ LastWriterOf(i) /\ log.cache_slot \in ValidSlots) =>
                       /\ from_str(log.records[n]).ok
                       /\ get(block_cache, log.cache_slot) = from_str(log.records[n]).value

\* GetBlock{number = 100, cache_slot = 1} yielded block 100 and then block
\* 101, the session closed and the render thread has applied everything
\* sent: slot 1 holds block 101
LastRecordWinsWitness ==
    /\ Len(yielded) = 1
    /\ yielded[1].tag = "GetBlock"
    /\ yielded[1].cache_slot = 1
    /\ yielded[1].records = <<"{\"number\":100}", "{\"number\":101}">>
    /\ yielded[1].closed
    /\ Drained
    /\ block_cache.block_1 = JsonObject(101)


---------------------------------------------------------------------------
\* C30: every GetBlock request on the stream channel, and every one the
\* stream thread has taken, carries cache_slot 1, every SetBlock sent names
\* slot 1, and slots 2, 3 and 4 of the Block Cache, null at the start, hold
\* null.
OnlySlotOneWritten ==
    /\ \A n \in DOMAIN stream_rec :
          stream_rec[n].tag = "GetBlock" => stream_rec[n].cache_slot = 1
    /\ \A i \in DOMAIN yielded :
          yielded[i].tag = "GetBlock" => yielded[i].cache_slot = 1
    /\ \A n \in DOMAIN emitted.stream :
          emitted.stream[n].tag = "SetBlock" => emitted.stream[n].slot = 1
    /\ block_cache.block_2 = JsonNull
    /\ block_cache.block_3 = JsonNull
    /\ block_cache.block_4 = JsonNull

\* two presses of "Get" have been served and applied: slot 1 holds the
\* block, the other slots null
OnlySlotOneWrittenWitness ==
    /\ Len(yielded) = 2
    /\ \A i \in DOMAIN yielded : yielded[i].tag = "GetBlock" /\ yielded[i].closed
    /\ Len(yielded[1].records) = 1
    /\ Len(yielded[2].records) = 1
    /\ Drained
    /\ block_cache = [BlockCacheDefault EXCEPT !.block_1 = JsonObject(100)]


---------------------------------------------------------------------------
\* C32: after set(s, v) with s in {1,2,3,4} each of the other three slots
\* holds what it held before the call, and after get(s), for any s, every
\* slot holds what it held before the call.
SetWritesOneSlot ==
    /\ (call.op = "set" /\ call.block \in ValidSlots) =>
           \A s \in ValidSlots \ {call.block} :
               get(block_cache, s) = get(call.before, s)
    /\ call.op = "get" => block_cache = call.before

\* slot 1 held a record when slot 2 was set: slot 1 holds it still
SetWritesOneSlotWitness ==
    /\ call.op = "set"
    /\ call.block = 2
    /\ call.value = JsonObject(100)
    /\ call.before.block_1 = JsonObject(100)
    /\ call.before.block_2 = JsonNull
    /\ block_cache.block_1 = JsonObject(100)
    /\ block_cache.block_2 = JsonObject(100)


---------------------------------------------------------------------------
\* the entries a message of the outbound channel adds to the log
Shown(msg) == OnGuiMessage(BlockCacheDefault, <<>>, msg).messages

RECURSIVE ShownAll(_)
ShownAll(queue) ==
    IF queue = <<>> THEN <<>> ELSE Shown(Head(queue)) \o ShownAll(Tail(queue))

\* the log as it is once the render thread has applied what the outbound
\* channel holds
Arriving == messages \o ShownAll(gui_receiver)

\* the texts of the errors of a call of foo with one value of the cache
FooErrors ==
    {"Error: " \o CallFn(ast, "foo", <<v>>).err :
        ast \in {<<>>, <<FooScript>>}, v \in Values} \ {"Error: "}

\* a log entry that is the result or the error of a call of foo
IsFooResult(entry) ==
    \/ entry.kind = "JsonMessage" /\ entry.json.t = "Number"
    \/ entry.kind = "TextMessage" /\ entry.text \in FooErrors

\* in log, the k-th notice stands before the k-th result of a call of foo
NoticesFirst(log) ==
    LET notices == Ascending({n \in DOMAIN log : log[n] = TextMessage(EvalBlockNotice)})
        results == Ascending({n \in DOMAIN log : IsFooResult(log[n])})
    IN  /\ Len(results) <= Len(notices)
        /\ \A k \in DOMAIN results : notices[k] < results[k]

\* a step that sends EvalWithArgs to the worker thread
EvalBlockStep ==
    /\ Len(worker_rec') = Len(worker_rec) + 1
    /\ worker_rec'[Len(worker_rec')].tag = "EvalWithArgs"

=============================================================================
